---- MODULE Spec2Model ----
(***************************************************************************)
(* Dockbase storage core: the DiskManager (page table, free-slot reuse,    *)
(* capacity growth, the three mutexes), the Channel and the DiskScheduler  *)
(* with its single worker thread.                                          *)
(*                                                                         *)
(* A DiskManager call is modelled at the granularity of its lock           *)
(* acquisitions: a step is one critical section, and a thread that waits   *)
(* for a mutex sits at the program point of the lock() call.  A finished   *)
(* call leaves its result with the thread (pc = "ret") until the caller    *)
(* takes it.                                                               *)
(***************************************************************************)
EXTENDS Integers, Sequences, FiniteSets, TLC

\* ------------------------------------------------------------------ bounds
NumThreads == 2      \* threads that call the DiskManager directly (NumThreads <= NumPages)
NumPages == 2        \* page ids 1..NumPages
MaxData == 2         \* page contents 1..MaxData (0 is the all-zero page)
MaxCalls == 4        \* DiskManager calls started by concurrent callers
MaxSeqCalls == 5     \* DiskManager calls started by a single caller
NumClients == 2      \* threads that call DiskScheduler::schedule
MaxReqs == 2         \* requests one client submits in all
MaxReqData == 1      \* buffer contents 1..MaxReqData of a Write request
MaxLogLen == 2       \* a write_log payload or read_log buffer has 0..MaxLogLen bytes
MaxLogByte == 2      \* log bytes 1..MaxLogByte (0 is the zero fill of read_log)
MaxPuts == 2         \* elements one producer puts on a Channel
MaxLogCalls == 3     \* calls started in all when the log API is among them

\* ------------------------------------------------- constants of config.rs
DOCKBASE_PAGE_SIZE == 4096
DEFAULT_DB_IO_SIZE == 1

None == 0 - 1        \* Option::None for offsets, page contents and lock holders
Torn == 0 - 2        \* a page left half-written by a failed write_all
WorkerId == 0        \* the scheduler's background thread, as a DiskManager caller
I32_MAX == 2147483647  \* the counters of struct Metadata are i32

Threads == 1..NumThreads
AllThreads == 0..NumThreads
PageIds == 1..NumPages
Data == 1..MaxData
Clients == 1..NumClients

VARIABLES
    \* struct Metadata
    num_flushes, num_writes, num_deletes, page_count, page_capacity,
    pages, free_slots, flush_log,
    \* the mutexes of struct DiskManager (holder, or None) and the data file
    metadata_lock, db_io_lock, db_io,
    \* the log-file mutex (holder, or None) and the log file, byte by byte
    log_io_lock, log_io,
    \* each thread's position in its DiskManager call and the call's locals
    \* (arguments, offset, is_new, and the result once it has returned; fault
    \* names the file operation that failed, if one did)
    pc, loc,
    \* observers: per page the bytes of the last successful write_page not
    \* followed by another write_page or delete_page of that page; and the
    \* offsets freed by delete_page since the last allocation
    expect, freed,
    \* observer: the payload and the log position of every write_log call that
    \* returned Ok, in the order of their returns
    logged,
    \* harness: how many threads call directly, and the calls each has started
    nthr, calls,
    \* DiskScheduler: the Channel's queue, the Vec each schedule call is
    \* draining, each client's position, the worker's position and the request
    \* it holds, the scheduler's lifecycle (live, joining, dropped)
    request_queue, requests, cpc, wpc, cur, sched,
    \* observers: the requests in the order they were put, how many requests
    \* each client has handed to schedule, and the booleans sent on the
    \* completion sinks, in the order of the sends; whether the latest send
    \* found its receiver dropped
    enq, nreq, sent, send_failed,
    \* a Channel with its producers and its consumer: the VecDeque, the
    \* consumer's position in get() and the element it returns; observers:
    \* the elements in push order, the elements returned, the puts per producer
    ch_queue, gpc, gel, put_log, got, nput

metaVars == <<num_flushes, num_writes, num_deletes, page_count, page_capacity,
              pages, free_slots, flush_log>>
vars == <<num_flushes, num_writes, num_deletes, page_count, page_capacity,
          pages, free_slots, flush_log, metadata_lock, db_io_lock, db_io,
          log_io_lock, log_io, pc, loc, expect, freed, logged, nthr, calls,
          request_queue, requests, cpc, wpc, cur, sched, enq, nreq, sent,
          send_failed, ch_queue, gpc, gel, put_log, got, nput>>
chanVars == <<ch_queue, gpc, gel, put_log, got, nput>>
logVars == <<log_io_lock, log_io, logged>>
dmState == <<metaVars, metadata_lock, db_io_lock, db_io, logVars, pc, loc, expect, freed>>
schedVars == <<request_queue, requests, cpc, wpc, cur, sched, enq, nreq, sent,
               send_failed, chanVars>>

\* ----------------------------------------------------------------- helpers
Front(s) == SubSeq(s, 1, Len(s) - 1)
Range(s) == {s[i] : i \in 1..Len(s)}
Max(a, b) == IF a > b THEN a ELSE b
Mapped == {p \in PageIds : pages[p] # None}
PageOffsets == {pages[p] : p \in Mapped}

NoLoc == [op |-> "none", page_id |-> 0, data |-> 0, offset |-> None,
          is_new |-> FALSE, ok |-> TRUE, err |-> "", fault |-> "",
          bytes |-> <<>>, found |-> FALSE]

Call(op, p, d, offset, is_new) ==
    [op |-> op, page_id |-> p, data |-> d, offset |-> offset,
     is_new |-> is_new, ok |-> TRUE, err |-> "", fault |-> "",
     bytes |-> <<>>, found |-> FALSE]

Ok(l, d) == [l EXCEPT !.data = d]
Err(l, err, fault) == [l EXCEPT !.ok = FALSE, !.err = err, !.fault = fault]

\* counter += 1 on an i32 with overflow checks off (the release profile): the
\* addition wraps. With overflow checks on it panics instead.
add_one(counter) == IF counter = I32_MAX THEN (0 - I32_MAX) - 1 ELSE counter + 1

\* File::set_len: truncate, or extend with zero pages (n in pages).
set_len(f, n) ==
    [i \in 1..n |-> IF i <= Len(f) THEN f[i] ELSE 0]

\* Mutant of write_at: the seek is left out, the page lands at position 0.
write_at_no_seek(f, offset, d) ==
    [i \in 1..Max(Len(f), 1) |-> IF i = 1 THEN d ELSE f[i]]

\* seek(offset) then write_all of one page: writing past the end extends the
\* file, the gap reading as zeros.
write_at(f, offset, d) ==
    LET slot == (offset \div DOCKBASE_PAGE_SIZE) + 1
    IN [i \in 1..Max(Len(f), slot) |->
           IF i = slot THEN d ELSE IF i <= Len(f) THEN f[i] ELSE 0]

\* seek(offset) then read until the buffer is full or EOF, zero-filled.
read_at(f, offset) ==
    LET slot == (offset \div DOCKBASE_PAGE_SIZE) + 1
    IN IF slot <= Len(f) THEN f[slot] ELSE 0

\* ------------------------------------------------------------------- Init
\* DiskManager::new
DMInit ==
    /\ num_flushes = 0 /\ num_writes = 0 /\ num_deletes = 0
    /\ page_count = 0
    /\ page_capacity = DEFAULT_DB_IO_SIZE
    /\ pages = [p \in PageIds |-> None]
    /\ free_slots = <<>>
    /\ flush_log = FALSE
    /\ metadata_lock = None /\ db_io_lock = None
    /\ db_io = [i \in 1..(DEFAULT_DB_IO_SIZE + 1) |-> 0]
    /\ log_io_lock = None /\ log_io = <<>>
    /\ logged = <<>>
    /\ pc = [t \in AllThreads |-> "idle"]
    /\ loc = [t \in AllThreads |-> NoLoc]
    /\ expect = [p \in PageIds |-> None]
    /\ freed = <<>>

\* ------------------------------------------------------------ DiskManager
\* Mutant of allocate_page: the free slot pushed first is reused (FIFO).
allocate_page_fifo(fs, count, capacity) ==
    IF fs # <<>>
    THEN [offset |-> fs[1], free_slots |-> Tail(fs), page_count |-> count,
          page_capacity |-> capacity, grow |-> FALSE]
    ELSE [offset |-> count * DOCKBASE_PAGE_SIZE, free_slots |-> fs,
          page_count |-> count + 1,
          page_capacity |-> IF count + 1 > capacity THEN capacity * 2 ELSE capacity,
          grow |-> count + 1 > capacity]

\* allocate_page up to the set_len call: pop the free slot pushed last, else
\* take the next offset and double the capacity once page_count exceeds it.
allocate_page(fs, count, capacity) ==
    IF fs # <<>>
    THEN [offset |-> fs[Len(fs)], free_slots |-> Front(fs), page_count |-> count,
          page_capacity |-> capacity, grow |-> FALSE]
    ELSE [offset |-> count * DOCKBASE_PAGE_SIZE, free_slots |-> fs,
          page_count |-> count + 1,
          page_capacity |-> IF count + 1 > capacity THEN capacity * 2 ELSE capacity,
          grow |-> count + 1 > capacity]

\* write_page, first critical section: lock metadata, resolve the offset
\* (the mapping, or allocate_page), drop the guard. When allocate_page has to
\* grow the file the thread keeps the metadata lock and goes on to lock db_io.
write_page_begin(t, p, d) ==
    /\ pc[t] = "idle"
    /\ metadata_lock = None
    /\ expect' = [expect EXCEPT ![p] = None]
    /\ IF pages[p] # None
       THEN /\ loc' = [loc EXCEPT ![t] = Call("write", p, d, pages[p], FALSE)]
            /\ pc' = [pc EXCEPT ![t] = "wp_db_lock"]
            /\ UNCHANGED <<free_slots, page_count, page_capacity, metadata_lock, freed>>
       ELSE LET a == allocate_page(free_slots, page_count, page_capacity)
            IN /\ free_slots' = a.free_slots
               /\ page_count' = a.page_count
               /\ page_capacity' = a.page_capacity
               /\ loc' = [loc EXCEPT ![t] = Call("write", p, d, a.offset, TRUE)]
               /\ pc' = [pc EXCEPT ![t] = IF a.grow THEN "alloc_db_lock" ELSE "wp_db_lock"]
               /\ metadata_lock' = IF a.grow THEN t ELSE None
               /\ freed' = <<>>
    /\ UNCHANGED <<num_flushes, num_writes, num_deletes, pages, flush_log,
                   db_io_lock, db_io>>
    /\ UNCHANGED logVars

\* allocate_page, line 219: self.db_io.lock()?.set_len(new_size)? with the
\* metadata guard of write_page still held. An error returns from write_page
\* before the AllocationGuard exists.
allocate_page_set_len(t, io_ok) ==
    /\ pc[t] = "alloc_db_lock"
    /\ db_io_lock = None
    /\ metadata_lock' = None
    /\ IF io_ok
       THEN /\ db_io' = set_len(db_io, page_capacity)
            /\ pc' = [pc EXCEPT ![t] = "wp_db_lock"]
            /\ UNCHANGED loc
       ELSE /\ loc' = [loc EXCEPT ![t] = Err(loc[t], "IO", "set_len")]
            /\ pc' = [pc EXCEPT ![t] = "ret"]
            /\ UNCHANGED db_io
    /\ UNCHANGED <<metaVars, db_io_lock, expect, freed>>
    /\ UNCHANGED logVars

\* write_page, lines 93-98: create the AllocationGuard, lock db_io, seek,
\* write_all, flush. On success the thread keeps db_io and goes on to lock
\* metadata; on an error db_io is released and the AllocationGuard is dropped.
IOOutcomes == {"ok", "seek", "write", "flush"}

write_page_io(t, outcome) ==
    /\ pc[t] = "wp_db_lock"
    /\ db_io_lock = None
    /\ db_io' = CASE outcome = "seek" -> db_io
                  [] outcome = "write" -> write_at(db_io, loc[t].offset, Torn)
                  [] OTHER -> write_at(db_io, loc[t].offset, loc[t].data)
    /\ IF outcome = "ok"
       THEN /\ db_io_lock' = t
            /\ pc' = [pc EXCEPT ![t] = "wp_meta_lock"]
            /\ UNCHANGED loc
       ELSE /\ db_io_lock' = None
            /\ loc' = [loc EXCEPT ![t] = Err(loc[t], "IO", outcome)]
            /\ pc' = [pc EXCEPT ![t] = IF loc[t].is_new THEN "guard_drop" ELSE "ret"]
    /\ UNCHANGED <<metaVars, metadata_lock, expect, freed>>
    /\ UNCHANGED logVars

\* write_page, lines 100-105: with db_io still held, lock metadata, insert the
\* mapping, count the write, commit the guard; every guard is dropped on return.
write_page_commit(t) ==
    /\ pc[t] = "wp_meta_lock"
    /\ metadata_lock = None
    /\ pages' = [pages EXCEPT ![loc[t].page_id] = loc[t].offset]
    /\ num_writes' = add_one(num_writes)
    /\ db_io_lock' = None
    /\ expect' = [expect EXCEPT ![loc[t].page_id] = loc[t].data]
    /\ pc' = [pc EXCEPT ![t] = "ret"]
    /\ UNCHANGED <<num_flushes, num_deletes, page_count, page_capacity, free_slots,
                   flush_log, metadata_lock, db_io, loc, freed>>
    /\ UNCHANGED logVars

\* Mutant of AllocationGuard_drop: the guard is dropped without the push.
AllocationGuard_drop_no_push(t) ==
    /\ pc[t] = "guard_drop"
    /\ metadata_lock = None
    /\ freed' = <<>>
    /\ pc' = [pc EXCEPT ![t] = "ret"]
    /\ UNCHANGED <<metaVars, metadata_lock, db_io_lock, db_io, loc, expect>>
    /\ UNCHANGED logVars

\* Drop for AllocationGuard with active && is_new: lock metadata, push the
\* offset back on free_slots.
AllocationGuard_drop(t) ==
    /\ pc[t] = "guard_drop"
    /\ metadata_lock = None
    /\ free_slots' = Append(free_slots, loc[t].offset)
    /\ freed' = <<>>
    /\ pc' = [pc EXCEPT ![t] = "ret"]
    /\ UNCHANGED <<num_flushes, num_writes, num_deletes, page_count, page_capacity,
                   pages, flush_log, metadata_lock, db_io_lock, db_io, loc, expect>>
    /\ UNCHANGED logVars

\* Mutant of read_page_begin: a page id with no mapping reads as zeros.
read_page_begin_unmapped_ok(t, p) ==
    /\ pc[t] = "idle"
    /\ metadata_lock = None
    /\ IF pages[p] = None
       THEN /\ loc' = [loc EXCEPT ![t] = Call("read", p, 0, None, FALSE)]
            /\ pc' = [pc EXCEPT ![t] = "ret"]
       ELSE /\ loc' = [loc EXCEPT ![t] = Call("read", p, None, pages[p], FALSE)]
            /\ pc' = [pc EXCEPT ![t] = "rp_db_lock"]
    /\ UNCHANGED <<metaVars, metadata_lock, db_io_lock, db_io, expect, freed>>
    /\ UNCHANGED logVars

\* read_page, lines 109-114: lock metadata, look the offset up, drop the guard.
read_page_begin(t, p) ==
    /\ pc[t] = "idle"
    /\ metadata_lock = None
    /\ IF pages[p] = None
       THEN /\ loc' = [loc EXCEPT ![t] =
                          Err(Call("read", p, None, None, FALSE), "Invalid", "")]
            /\ pc' = [pc EXCEPT ![t] = "ret"]
       ELSE /\ loc' = [loc EXCEPT ![t] = Call("read", p, None, pages[p], FALSE)]
            /\ pc' = [pc EXCEPT ![t] = "rp_db_lock"]
    /\ UNCHANGED <<metaVars, metadata_lock, db_io_lock, db_io, expect, freed>>
    /\ UNCHANGED logVars

\* read_page, lines 115-133: lock db_io, check the offset against the file
\* size, seek, read the page.
read_page_io(t, io_ok) ==
    /\ pc[t] = "rp_db_lock"
    /\ db_io_lock = None
    /\ loc' = [loc EXCEPT ![t] =
          IF ~io_ok
          THEN Err(loc[t], "IO", "read")
          ELSE IF loc[t].offset >= Len(db_io) * DOCKBASE_PAGE_SIZE
          THEN Err(loc[t], "IO", "")
          ELSE Ok(loc[t], read_at(db_io, loc[t].offset))]
    /\ pc' = [pc EXCEPT ![t] = "ret"]
    /\ UNCHANGED <<metaVars, metadata_lock, db_io_lock, db_io, expect, freed>>
    /\ UNCHANGED logVars

\* Mutant of delete_page: num_deletes is counted outside the if-let.
delete_page_counts_every_call(t, p) ==
    /\ pc[t] = "idle"
    /\ metadata_lock = None
    /\ IF pages[p] # None
       THEN /\ pages' = [pages EXCEPT ![p] = None]
            /\ free_slots' = Append(free_slots, pages[p])
            /\ freed' = Append(freed, pages[p])
       ELSE UNCHANGED <<pages, free_slots, freed>>
    /\ num_deletes' = num_deletes + 1
    /\ loc' = [loc EXCEPT ![t] = Call("delete", p, None, pages[p], FALSE)]
    /\ pc' = [pc EXCEPT ![t] = "ret"]
    /\ expect' = [expect EXCEPT ![p] = None]
    /\ UNCHANGED <<num_flushes, num_writes, page_count, page_capacity, flush_log,
                   metadata_lock, db_io_lock, db_io>>
    /\ UNCHANGED logVars

\* delete_page: one critical section under the metadata lock.
delete_page(t, p) ==
    /\ pc[t] = "idle"
    /\ metadata_lock = None
    /\ IF pages[p] # None
       THEN /\ pages' = [pages EXCEPT ![p] = None]
            /\ free_slots' = Append(free_slots, pages[p])
            /\ num_deletes' = add_one(num_deletes)
            /\ freed' = Append(freed, pages[p])
       ELSE UNCHANGED <<pages, free_slots, num_deletes, freed>>
    /\ loc' = [loc EXCEPT ![t] = Call("delete", p, None, pages[p], FALSE)]
    /\ pc' = [pc EXCEPT ![t] = "ret"]
    /\ expect' = [expect EXCEPT ![p] = None]
    /\ UNCHANGED <<num_flushes, num_writes, page_count, page_capacity, flush_log,
                   metadata_lock, db_io_lock, db_io>>
    /\ UNCHANGED logVars

\* The caller takes the Result of its finished call.
call_return(t) ==
    /\ pc[t] = "ret"
    /\ pc' = [pc EXCEPT ![t] = "idle"]
    /\ loc' = [loc EXCEPT ![t] = NoLoc]
    /\ UNCHANGED <<metaVars, metadata_lock, db_io_lock, db_io, expect, freed>>
    /\ UNCHANGED logVars

\* ------------------------------------------------------- the log file
LogBytes == 1..MaxLogByte
Payloads == UNION {[1..k -> LogBytes] : k \in 0..MaxLogLen}
Zeros(n) == [i \in 1..n |-> 0]

LogCall(op, bytes, offset) ==
    [Call(op, 0, 0, offset, FALSE) EXCEPT !.bytes = bytes]

\* Mutant of append: the log is not in append mode, the bytes land at the
\* start of the file.
append_at_start(f, bytes) ==
    [i \in 1..Max(Len(f), Len(bytes)) |-> IF i <= Len(bytes) THEN bytes[i] ELSE f[i]]

\* write_all on the log file, opened with append(true): the bytes go to the
\* end of the file wherever the cursor is.
append(f, bytes) == f \o bytes

\* Mutant of write_log_begin: the empty payload takes the path of the others.
write_log_begin_no_empty_check(t, log_data) ==
    /\ pc[t] = "idle"
    /\ metadata_lock = None
    /\ flush_log' = TRUE
    /\ loc' = [loc EXCEPT ![t] = LogCall("write_log", log_data, None)]
    /\ pc' = [pc EXCEPT ![t] = "wl_log_lock"]
    /\ UNCHANGED <<num_flushes, num_writes, num_deletes, page_count, page_capacity,
                   pages, free_slots, metadata_lock, db_io_lock, db_io, logVars,
                   expect, freed>>

\* write_log, lines 146-152: return Ok at once for an empty payload; else lock
\* metadata, set flush_log, release metadata.
write_log_begin(t, log_data) ==
    /\ pc[t] = "idle"
    /\ loc' = [loc EXCEPT ![t] = LogCall("write_log", log_data, None)]
    /\ IF log_data = <<>>
       THEN /\ pc' = [pc EXCEPT ![t] = "ret"]
            /\ UNCHANGED flush_log
       ELSE /\ metadata_lock = None
            /\ flush_log' = TRUE
            /\ pc' = [pc EXCEPT ![t] = "wl_log_lock"]
    /\ UNCHANGED <<num_flushes, num_writes, num_deletes, page_count, page_capacity,
                   pages, free_slots, metadata_lock, db_io_lock, db_io, logVars,
                   expect, freed>>

\* write_log, lines 154-156: lock log_io, write_all, flush. A failed write_all
\* has written the first k bytes, a failed flush all of them; either returns
\* the error at once, releasing log_io. On success the thread keeps log_io
\* and goes on to lock metadata.
LogOutcomes == {"ok", "write", "flush"}

write_log_io(t, outcome, k) ==
    /\ pc[t] = "wl_log_lock"
    /\ log_io_lock = None
    /\ log_io' = IF outcome = "write"
                 THEN append(log_io, SubSeq(loc[t].bytes, 1, k))
                 ELSE append(log_io, loc[t].bytes)
    /\ IF outcome = "ok"
       THEN /\ log_io_lock' = t
            /\ loc' = [loc EXCEPT ![t].offset = Len(log_io)]
            /\ pc' = [pc EXCEPT ![t] = "wl_meta_lock"]
       ELSE /\ log_io_lock' = None
            /\ loc' = [loc EXCEPT ![t] = Err(loc[t], "IO", outcome)]
            /\ pc' = [pc EXCEPT ![t] = "ret"]
    /\ UNCHANGED <<metaVars, metadata_lock, db_io_lock, db_io, logged, expect, freed>>

\* write_log, lines 158-161: with log_io still held, lock metadata, count the
\* flush, clear flush_log; both guards are dropped on return.
write_log_commit(t) ==
    /\ pc[t] = "wl_meta_lock"
    /\ metadata_lock = None
    /\ num_flushes' = add_one(num_flushes)
    /\ flush_log' = FALSE
    /\ log_io_lock' = None
    /\ logged' = Append(logged, [data |-> loc[t].bytes, at |-> loc[t].offset])
    /\ pc' = [pc EXCEPT ![t] = "ret"]
    /\ UNCHANGED <<num_writes, num_deletes, page_count, page_capacity, pages,
                   free_slots, metadata_lock, db_io_lock, db_io, log_io, loc,
                   expect, freed>>

\* read_log into a zeroed buffer of size bytes: one critical section under
\* log_io. Ok(false) with the buffer untouched at or past the end of the
\* file; else seek, read until the buffer is full or EOF, zero-fill, Ok(true).
read_log(t, size, offset, io_ok) ==
    /\ pc[t] = "idle"
    /\ log_io_lock = None
    /\ loc' = [loc EXCEPT ![t] =
          IF ~io_ok
          THEN Err(LogCall("read_log", Zeros(size), offset), "IO", "read")
          ELSE IF offset >= Len(log_io)
          THEN LogCall("read_log", Zeros(size), offset)
          ELSE [LogCall("read_log",
                        [i \in 1..size |->
                            IF offset + i <= Len(log_io) THEN log_io[offset + i] ELSE 0],
                        offset) EXCEPT !.found = TRUE]]
    /\ pc' = [pc EXCEPT ![t] = "ret"]
    /\ UNCHANGED <<metaVars, metadata_lock, db_io_lock, db_io, logVars, expect, freed>>

\* shut_down, lines 78-79: lock db_io and drop the guard.
shut_down_begin(t) ==
    /\ pc[t] = "idle"
    /\ db_io_lock = None
    /\ loc' = [loc EXCEPT ![t] = LogCall("shut_down", <<>>, None)]
    /\ pc' = [pc EXCEPT ![t] = "sd_log_lock"]
    /\ UNCHANGED <<metaVars, metadata_lock, db_io_lock, db_io, logVars, expect, freed>>

\* shut_down, lines 80-82: lock log_io, drop the guard, return Ok.
shut_down_end(t) ==
    /\ pc[t] = "sd_log_lock"
    /\ log_io_lock = None
    /\ pc' = [pc EXCEPT ![t] = "ret"]
    /\ UNCHANGED <<metaVars, metadata_lock, db_io_lock, db_io, logVars, loc, expect, freed>>

\* ------------------------------------------- direct callers of DiskManager
\* DiskScheduler::new: an empty Channel and the worker about to call get().
NoneReq == [client |-> 0, seq |-> 0, request_type |-> "None", page_id |-> 0, data |-> 0]

SchedInit ==
    /\ request_queue = <<>>
    /\ requests = [c \in Clients |-> <<>>]
    /\ cpc = [c \in Clients |-> "idle"]
    /\ wpc = "get"
    /\ cur = NoneReq
    /\ sched = "live"
    /\ enq = <<>>
    /\ nreq = [c \in Clients |-> 0]
    /\ sent = <<>>
    /\ send_failed = FALSE
    /\ ch_queue = <<>>
    /\ gpc = "idle"
    /\ gel = NoneReq
    /\ put_log = <<>>
    /\ got = <<>>
    /\ nput = [c \in Clients |-> 0]

Init ==
    /\ DMInit
    /\ SchedInit
    /\ nthr \in 1..NumThreads
    /\ calls = [t \in AllThreads |-> 0]

RECURSIVE SumTo(_, _)
SumTo(f, n) == IF n < 0 THEN 0 ELSE f[n] + SumTo(f, n - 1)
TotalCalls == SumTo(calls, NumThreads)

Caller(t) == t \in Threads /\ t <= nthr
Budget == IF nthr = 1 THEN MaxSeqCalls ELSE MaxCalls
Counted(t) == calls' = [calls EXCEPT ![t] = calls[t] + 1] /\ UNCHANGED <<nthr, schedVars>>

CallWrite ==
    \E t \in Threads, p \in PageIds, d \in Data :
        /\ Caller(t) /\ TotalCalls < Budget
        /\ write_page_begin(t, p, d) /\ Counted(t)

CallRead ==
    \E t \in Threads, p \in PageIds :
        /\ Caller(t) /\ TotalCalls < Budget
        /\ read_page_begin(t, p) /\ Counted(t)

CallDelete ==
    \E t \in Threads, p \in PageIds :
        /\ Caller(t) /\ TotalCalls < Budget
        /\ delete_page(t, p) /\ Counted(t)

StepSetLenOk ==
    \E t \in Threads : allocate_page_set_len(t, TRUE) /\ UNCHANGED <<nthr, calls, schedVars>>

StepSetLenFail ==
    \E t \in Threads : allocate_page_set_len(t, FALSE) /\ UNCHANGED <<nthr, calls, schedVars>>

StepWriteIOOk ==
    \E t \in Threads : write_page_io(t, "ok") /\ UNCHANGED <<nthr, calls, schedVars>>

StepWriteIOFail ==
    \E t \in Threads, outcome \in IOOutcomes \ {"ok"} :
        write_page_io(t, outcome) /\ UNCHANGED <<nthr, calls, schedVars>>

StepWriteCommit ==
    \E t \in Threads : write_page_commit(t) /\ UNCHANGED <<nthr, calls, schedVars>>

StepGuardDrop ==
    \E t \in Threads : AllocationGuard_drop(t) /\ UNCHANGED <<nthr, calls, schedVars>>

StepReadIOOk ==
    \E t \in Threads : read_page_io(t, TRUE) /\ UNCHANGED <<nthr, calls, schedVars>>

StepReadIOFail ==
    \E t \in Threads : read_page_io(t, FALSE) /\ UNCHANGED <<nthr, calls, schedVars>>

StepReturn ==
    \E t \in Threads : call_return(t) /\ UNCHANGED <<nthr, calls, schedVars>>

\* Any calls by 1..NumThreads callers, every file operation free to fail.
Next ==
    \/ CallWrite \/ CallRead \/ CallDelete
    \/ StepSetLenOk \/ StepSetLenFail \/ StepWriteIOOk \/ StepWriteIOFail
    \/ StepWriteCommit \/ StepGuardDrop \/ StepReadIOOk \/ StepReadIOFail
    \/ StepReturn

Spec == Init /\ [][Next]_vars

\* The same callers on a file system where no operation fails.
NextNoFault ==
    \/ CallWrite \/ CallRead \/ CallDelete
    \/ StepSetLenOk \/ StepWriteIOOk \/ StepWriteCommit \/ StepReadIOOk
    \/ StepReturn

SpecNoFault == Init /\ [][NextNoFault]_vars

\* Callers that write to page p the bytes that name it (data = p), so that a
\* page's content tells for which page id it was written; no file operation
\* fails.
TaggedWrite ==
    \E t \in Threads, p \in PageIds :
        /\ Caller(t) /\ TotalCalls < Budget /\ p \in Data
        /\ write_page_begin(t, p, p) /\ Counted(t)

NextTagged ==
    \/ TaggedWrite \/ CallRead \/ CallDelete
    \/ StepSetLenOk \/ StepWriteIOOk \/ StepWriteCommit \/ StepReadIOOk
    \/ StepReturn

SpecTagged == Init /\ [][NextTagged]_vars

\* A DiskManager in long service: the state one caller reaches from
\* DiskManager::new by I32_MAX - 1 successful write_page(1, 1) calls, from
\* which it goes on with any calls; no file operation fails.
LongRunInit ==
    /\ num_flushes = 0 /\ num_writes = I32_MAX - 1 /\ num_deletes = 0
    /\ page_count = 1
    /\ page_capacity = DEFAULT_DB_IO_SIZE
    /\ pages = [p \in PageIds |-> IF p = 1 THEN 0 ELSE None]
    /\ free_slots = <<>>
    /\ flush_log = FALSE
    /\ metadata_lock = None /\ db_io_lock = None
    /\ db_io = [i \in 1..(DEFAULT_DB_IO_SIZE + 1) |-> IF i = 1 THEN 1 ELSE 0]
    /\ log_io_lock = None /\ log_io = <<>>
    /\ logged = <<>>
    /\ pc = [t \in AllThreads |-> "idle"]
    /\ loc = [t \in AllThreads |-> NoLoc]
    /\ expect = [p \in PageIds |-> IF p = 1 THEN 1 ELSE None]
    /\ freed = <<>>
    /\ SchedInit
    /\ nthr = 1
    /\ calls = [t \in AllThreads |-> 0]

SpecLongRun == LongRunInit /\ [][NextNoFault]_vars

\* test_concurrent_writes_reads: thread i calls write_page(i, data_i), then
\* read_page(i, buf); no file operation fails.
ScenarioWrite ==
    \E t \in Threads, d \in Data :
        /\ Caller(t) /\ calls[t] = 0
        /\ write_page_begin(t, t, d) /\ Counted(t)

ScenarioRead ==
    \E t \in Threads :
        /\ Caller(t) /\ calls[t] = 1
        /\ read_page_begin(t, t) /\ Counted(t)

NextScenario ==
    \/ ScenarioWrite \/ ScenarioRead
    \/ StepSetLenOk \/ StepWriteIOOk \/ StepWriteCommit \/ StepReadIOOk
    \/ StepReturn

SpecScenario == Init /\ [][NextScenario]_vars

\* ------------------------------------------------ callers of the log API
CallWriteLog ==
    \E t \in Threads, log_data \in Payloads :
        /\ Caller(t) /\ TotalCalls < MaxLogCalls
        /\ write_log_begin(t, log_data) /\ Counted(t)

CallReadLog ==
    \E t \in Threads, size \in 1..MaxLogLen, offset \in 0..(Len(log_io) + 1),
       io_ok \in BOOLEAN :
        /\ Caller(t) /\ TotalCalls < MaxLogCalls
        /\ read_log(t, size, offset, io_ok) /\ Counted(t)

StepLogIOOk ==
    \E t \in Threads : write_log_io(t, "ok", 0) /\ UNCHANGED <<nthr, calls, schedVars>>

StepLogIOFail ==
    \E t \in Threads, outcome \in LogOutcomes \ {"ok"} :
        \E k \in 0..(Len(loc[t].bytes) - 1) :
            write_log_io(t, outcome, k) /\ UNCHANGED <<nthr, calls, schedVars>>

StepLogCommit ==
    \E t \in Threads : write_log_commit(t) /\ UNCHANGED <<nthr, calls, schedVars>>

\* write_log and read_log calls by 1..NumThreads callers, every operation on
\* the log file free to fail.
NextLog ==
    \/ CallWriteLog \/ CallReadLog
    \/ StepLogIOOk \/ StepLogIOFail \/ StepLogCommit
    \/ StepReturn

SpecLog == Init /\ [][NextLog]_vars

CallShutDown ==
    \E t \in Threads :
        /\ Caller(t) /\ TotalCalls < MaxLogCalls
        /\ shut_down_begin(t) /\ Counted(t)

StepShutDownLog ==
    \E t \in Threads : shut_down_end(t) /\ UNCHANGED <<nthr, calls, schedVars>>

AllCallWrite == TotalCalls < MaxLogCalls /\ CallWrite
AllCallRead == TotalCalls < MaxLogCalls /\ CallRead
AllCallDelete == TotalCalls < MaxLogCalls /\ CallDelete

\* Every operation of the DiskManager, by 1..NumThreads callers, every file
\* operation free to fail.
NextAll ==
    \/ AllCallWrite \/ AllCallRead \/ AllCallDelete
    \/ StepSetLenOk \/ StepSetLenFail \/ StepWriteIOOk \/ StepWriteIOFail
    \/ StepWriteCommit \/ StepGuardDrop \/ StepReadIOOk \/ StepReadIOFail
    \/ CallWriteLog \/ CallReadLog
    \/ StepLogIOOk \/ StepLogIOFail \/ StepLogCommit
    \/ CallShutDown \/ StepShutDownLog
    \/ StepReturn

SpecAll == Init /\ [][NextAll]_vars

\* ---------------------------------------------------------------- Channel
\* Channel::put: lock the queue, push_back, notify_all.
Channel_put(queue, element) == Append(queue, element)

\* Mutant of Channel_get: the element is taken from the back of the queue.
Channel_get_pop_back(queue) ==
    [element |-> queue[Len(queue)], queue |-> Front(queue)]

\* Mutant of Channel_get: the element is read but left in the queue.
Channel_get_peek(queue) ==
    [element |-> Head(queue), queue |-> queue]

\* Channel::get: lock the queue, wait on the condvar while it is empty (the
\* caller's guard), pop_front.
Channel_get(queue) ==
    [element |-> Head(queue), queue |-> Tail(queue)]

\* Mutant of notify_all: nobody is woken.
notify_none(g) == g

\* Condvar::notify_all: a consumer parked in wait() is woken.
notify_all(g) == IF g = "parked" THEN "woken" ELSE g

\* put(element), one critical section under the queue mutex: push_back, then
\* notify_all.
put(c) ==
    /\ nput[c] < MaxPuts
    /\ LET element == [client |-> c, seq |-> nput[c] + 1]
       IN /\ ch_queue' = Channel_put(ch_queue, element)
          /\ put_log' = Append(put_log, element)
    /\ nput' = [nput EXCEPT ![c] = nput[c] + 1]
    /\ gpc' = notify_all(gpc)
    /\ UNCHANGED <<gel, got>>

\* get(), from lock() or from the wake-up inside wait(), which re-locks the
\* mutex: while the queue is empty wait on the condvar, which unlocks the
\* mutex and parks the thread in one step; else pop_front.
get(from) ==
    /\ gpc = from
    /\ IF ch_queue = <<>>
       THEN /\ gpc' = "parked"
            /\ UNCHANGED <<ch_queue, gel>>
       ELSE LET g == Channel_get(ch_queue)
            IN /\ ch_queue' = g.queue
               /\ gel' = g.element
               /\ gpc' = "ret"
    /\ UNCHANGED <<put_log, got, nput>>

\* Condvar::wait may return without a notification.
spurious_wakeup ==
    /\ gpc = "parked"
    /\ gpc' = "woken"
    /\ UNCHANGED <<ch_queue, gel, put_log, got, nput>>

\* get() returns Ok(element) to the consumer.
get_return ==
    /\ gpc = "ret"
    /\ got' = Append(got, gel)
    /\ gel' = NoneReq
    /\ gpc' = "idle"
    /\ UNCHANGED <<ch_queue, put_log, nput>>

chanRest == <<dmState, nthr, calls, request_queue, requests, cpc, wpc, cur, sched,
              enq, nreq, sent, send_failed>>

ProducerPut == \E c \in Clients : put(c) /\ UNCHANGED chanRest
ConsumerGet == get("idle") /\ UNCHANGED chanRest
ConsumerWake == get("woken") /\ UNCHANGED chanRest
SpuriousWakeup == spurious_wakeup /\ UNCHANGED chanRest
ConsumerReturn == get_return /\ UNCHANGED chanRest

ConsumerNext == ConsumerGet \/ ConsumerWake \/ ConsumerReturn

ChannelNext ==
    \/ ProducerPut \/ ConsumerGet \/ ConsumerWake \/ SpuriousWakeup
    \/ ConsumerReturn

\* Any number of producers and one consumer that keeps calling get(); the
\* consumer thread runs whenever it is not parked.
ChannelInit ==
    /\ DMInit
    /\ SchedInit
    /\ nthr = 0
    /\ calls = [t \in AllThreads |-> 0]

SpecChannel == ChannelInit /\ [][ChannelNext]_vars /\ WF_vars(ConsumerNext)

\* ---------------------------------------------------------- DiskScheduler
\* The Vec<DiskRequest> values a client may pass to schedule.
RequestKinds ==
    [request_type : {"Write"}, page_id : PageIds, data : 1..MaxReqData]
        \cup [request_type : {"Read"}, page_id : PageIds, data : {0}]
Batches(n) == UNION {[1..k -> RequestKinds] : k \in 1..n}

\* schedule(requests): the call takes the Vec.
schedule_call(c, batch) ==
    /\ sched = "live"
    /\ cpc[c] = "idle"
    /\ requests' = [requests EXCEPT ![c] =
          [i \in 1..Len(batch) |->
              [client |-> c, seq |-> nreq[c] + i, request_type |-> batch[i].request_type,
               page_id |-> batch[i].page_id, data |-> batch[i].data]]]
    /\ nreq' = [nreq EXCEPT ![c] = nreq[c] + Len(batch)]
    /\ cpc' = [cpc EXCEPT ![c] = "scheduling"]
    /\ UNCHANGED <<request_queue, wpc, cur, sched, enq, sent, send_failed>>

\* schedule, one turn of the drain loop: put(Some(request)); the call returns
\* after the last one.
schedule_put(c) ==
    /\ cpc[c] = "scheduling"
    /\ request_queue' = Channel_put(request_queue, Head(requests[c]))
    /\ enq' = Append(enq, Head(requests[c]))
    /\ requests' = [requests EXCEPT ![c] = Tail(requests[c])]
    /\ cpc' = [cpc EXCEPT ![c] = IF Len(requests[c]) = 1 THEN "idle" ELSE "scheduling"]
    /\ UNCHANGED <<wpc, cur, sched, nreq, sent, send_failed>>

\* start_worker_thread, line 52: while let Ok(Some(request)) = queue.get().
worker_get ==
    /\ wpc = "get"
    /\ request_queue # <<>>
    /\ LET g == Channel_get(request_queue)
       IN /\ request_queue' = g.queue
          /\ IF g.element = NoneReq
             THEN wpc' = "exited" /\ UNCHANGED cur
             ELSE wpc' = "dispatch" /\ cur' = g.element
    /\ UNCHANGED <<requests, cpc, sched, enq, nreq, sent, send_failed>>

\* Mutant of worker_send: only a success is reported.
worker_send_only_true(delivered) ==
    /\ wpc = "wait"
    /\ pc[WorkerId] = "ret"
    /\ sent' = IF loc[WorkerId].ok
               THEN Append(sent, [client |-> cur.client, seq |-> cur.seq, value |-> TRUE])
               ELSE sent
    /\ send_failed' = ~delivered
    /\ wpc' = "get"
    /\ cur' = NoneReq
    /\ UNCHANGED <<request_queue, requests, cpc, sched, enq, nreq>>

\* Mutant of worker_send: the loop ends when a send fails.
worker_send_checked(delivered) ==
    /\ wpc = "wait"
    /\ pc[WorkerId] = "ret"
    /\ sent' = Append(sent, [client |-> cur.client, seq |-> cur.seq,
                              value |-> loc[WorkerId].ok])
    /\ send_failed' = ~delivered
    /\ wpc' = IF delivered THEN "get" ELSE "exited"
    /\ cur' = NoneReq
    /\ UNCHANGED <<request_queue, requests, cpc, sched, enq, nreq>>

\* start_worker_thread, line 59: request.callback.send(result.is_ok()), the
\* result of the send ignored (it is an error when the caller has dropped
\* its receiver); then the next turn of the loop.
worker_send(delivered) ==
    /\ wpc = "wait"
    /\ pc[WorkerId] = "ret"
    /\ sent' = Append(sent, [client |-> cur.client, seq |-> cur.seq,
                              value |-> loc[WorkerId].ok])
    /\ send_failed' = ~delivered
    /\ wpc' = "get"
    /\ cur' = NoneReq
    /\ UNCHANGED <<request_queue, requests, cpc, sched, enq, nreq>>

\* Mutant of drop_put_sentinel: the sentinel jumps the queue.
drop_put_sentinel_front ==
    /\ sched = "live"
    /\ \A c \in Clients : cpc[c] = "idle"
    /\ request_queue' = <<NoneReq>> \o request_queue
    /\ sched' = "joining"
    /\ UNCHANGED <<requests, cpc, wpc, cur, enq, nreq, sent, send_failed>>

\* Drop for DiskScheduler: put(None), which needs the scheduler to itself
\* (&mut self: no schedule call is running), then join the worker.
drop_put_sentinel ==
    /\ sched = "live"
    /\ \A c \in Clients : cpc[c] = "idle"
    /\ request_queue' = Channel_put(request_queue, NoneReq)
    /\ sched' = "joining"
    /\ UNCHANGED <<requests, cpc, wpc, cur, enq, nreq, sent, send_failed>>

drop_join ==
    /\ sched = "joining"
    /\ wpc = "exited"
    /\ sched' = "dropped"
    /\ UNCHANGED <<request_queue, requests, cpc, wpc, cur, enq, nreq, sent, send_failed>>

\* ------------------------------------- the scheduler over its DiskManager
SchedulerInit ==
    /\ DMInit
    /\ SchedInit
    /\ nthr = 0
    /\ calls = [t \in AllThreads |-> 0]

ClientSchedule ==
    \E c \in Clients : \E batch \in Batches(MaxReqs - nreq[c]) :
        schedule_call(c, batch) /\ UNCHANGED <<dmState, nthr, calls, chanVars>>

ClientPut ==
    \E c \in Clients : schedule_put(c) /\ UNCHANGED <<dmState, nthr, calls, chanVars>>

WorkerGet == worker_get /\ UNCHANGED <<dmState, nthr, calls, chanVars>>

\* start_worker_thread, lines 55-58: the match on request_type.
WorkerDispatchWrite ==
    /\ wpc = "dispatch" /\ cur.request_type = "Write"
    /\ write_page_begin(WorkerId, cur.page_id, cur.data)
    /\ wpc' = "wait"
    /\ UNCHANGED <<request_queue, requests, cpc, cur, sched, enq, nreq, sent,
                   send_failed, nthr, calls, chanVars>>

WorkerDispatchRead ==
    /\ wpc = "dispatch" /\ cur.request_type = "Read"
    /\ read_page_begin(WorkerId, cur.page_id)
    /\ wpc' = "wait"
    /\ UNCHANGED <<request_queue, requests, cpc, cur, sched, enq, nreq, sent,
                   send_failed, nthr, calls, chanVars>>

WorkerSetLenOk ==
    allocate_page_set_len(WorkerId, TRUE) /\ UNCHANGED <<nthr, calls, schedVars>>

WorkerSetLenFail ==
    allocate_page_set_len(WorkerId, FALSE) /\ UNCHANGED <<nthr, calls, schedVars>>

WorkerWriteIOOk ==
    write_page_io(WorkerId, "ok") /\ UNCHANGED <<nthr, calls, schedVars>>

WorkerWriteIOFail ==
    \E outcome \in IOOutcomes \ {"ok"} :
        write_page_io(WorkerId, outcome) /\ UNCHANGED <<nthr, calls, schedVars>>

WorkerWriteCommit ==
    write_page_commit(WorkerId) /\ UNCHANGED <<nthr, calls, schedVars>>

WorkerGuardDrop ==
    AllocationGuard_drop(WorkerId) /\ UNCHANGED <<nthr, calls, schedVars>>

WorkerReadIOOk ==
    read_page_io(WorkerId, TRUE) /\ UNCHANGED <<nthr, calls, schedVars>>

WorkerReadIOFail ==
    read_page_io(WorkerId, FALSE) /\ UNCHANGED <<nthr, calls, schedVars>>

WorkerSend ==
    worker_send(TRUE) /\ call_return(WorkerId) /\ UNCHANGED <<nthr, calls, chanVars>>

\* The same send when the caller has dropped the receiving end.
WorkerSendDropped ==
    worker_send(FALSE) /\ call_return(WorkerId) /\ UNCHANGED <<nthr, calls, chanVars>>

DropPutSentinel == drop_put_sentinel /\ UNCHANGED <<dmState, nthr, calls, chanVars>>

DropJoin == drop_join /\ UNCHANGED <<dmState, nthr, calls, chanVars>>

\* Every step of the background thread.
WorkerNext ==
    \/ WorkerGet \/ WorkerDispatchWrite \/ WorkerDispatchRead
    \/ WorkerSetLenOk \/ WorkerSetLenFail \/ WorkerWriteIOOk \/ WorkerWriteIOFail
    \/ WorkerWriteCommit \/ WorkerGuardDrop \/ WorkerReadIOOk \/ WorkerReadIOFail
    \/ WorkerSend

SchedulerNext ==
    \/ ClientSchedule \/ ClientPut
    \/ WorkerGet \/ WorkerDispatchWrite \/ WorkerDispatchRead
    \/ WorkerSetLenOk \/ WorkerSetLenFail \/ WorkerWriteIOOk \/ WorkerWriteIOFail
    \/ WorkerWriteCommit \/ WorkerGuardDrop \/ WorkerReadIOOk \/ WorkerReadIOFail
    \/ WorkerSend
    \/ DropPutSentinel \/ DropJoin

\* The worker is a thread of its own: the OS keeps running it while it has a
\* step to take.
SpecScheduler == SchedulerInit /\ [][SchedulerNext]_vars /\ WF_vars(WorkerNext)

\* The thread that drops the scheduler is woken from join() once the worker
\* has exited.
SpecSchedulerDrop ==
    SchedulerInit /\ [][SchedulerNext]_vars /\ WF_vars(WorkerNext) /\ WF_vars(DropJoin)

\* The same scheduler with callers that may drop their receivers.
SchedulerRxNext == SchedulerNext \/ WorkerSendDropped

SpecSchedulerRx ==
    SchedulerInit /\ [][SchedulerRxNext]_vars /\ WF_vars(WorkerNext \/ WorkerSendDropped)

\* ----------------------------------------------------------------- claims
InFlightWrite(t) == pc[t] \in {"alloc_db_lock", "wp_db_lock", "wp_meta_lock", "guard_drop"}
FileFaults == {"seek", "write", "flush"}
Last(s) == s[Len(s)]

\* C1: every offset in the value-set of pages is not in free_slots, is a
\* multiple of PAGE_SIZE and lies strictly below page_capacity * PAGE_SIZE, in
\* every reachable state, interleavings of concurrent calls included.
C1_PagesDisjointAlignedBounded ==
    \A p \in Mapped :
        /\ pages[p] \notin Range(free_slots)
        /\ pages[p] % DOCKBASE_PAGE_SIZE = 0
        /\ pages[p] < page_capacity * DOCKBASE_PAGE_SIZE

\* C2: the pages map is injective: no two page ids map to the same offset.
C2_PagesInjective ==
    \A p, q \in Mapped : p # q => pages[p] # pages[q]

\* C3: no allocated offset is leaked: every offset k * PAGE_SIZE with
\* k < page_count is a value of pages, an element of free_slots, or the offset
\* held by a write_page call still in flight.
C3_NoOffsetLeaked ==
    \A k \in 0..(page_count - 1) :
        \/ k * DOCKBASE_PAGE_SIZE \in PageOffsets
        \/ k * DOCKBASE_PAGE_SIZE \in Range(free_slots)
        \/ \E t \in AllThreads :
              InFlightWrite(t) /\ loc[t].offset = k * DOCKBASE_PAGE_SIZE

\* C4: every request put on the queue by schedule eventually has a boolean
\* sent on its completion sink, and never more than one: the number of sends
\* for a request never exceeds one and never goes back.
Enqueued(c, k) == \E i \in 1..Len(enq) : enq[i].client = c /\ enq[i].seq = k
SentCount(c, k) ==
    Cardinality({i \in 1..Len(sent) : sent[i].client = c /\ sent[i].seq = k})

C4_AtMostOne ==
    \A c \in Clients, k \in 1..MaxReqs :
        /\ SentCount(c, k) <= 1
        /\ SentCount(c, k) = 1 => Enqueued(c, k)

C4_SendsStay ==
    /\ Len(sent) <= Len(sent')
    /\ \A i \in 1..Len(sent) : sent'[i] = sent[i]

C4_ExactlyOneBoolean ==
    /\ \A c \in Clients, k \in 1..MaxReqs : Enqueued(c, k) ~> (SentCount(c, k) = 1)
    /\ []C4_AtMostOne
    /\ [][C4_SendsStay]_vars

C4_Witness ==
    /\ sched = "dropped"
    /\ Len(enq) = NumClients * MaxReqs /\ Len(sent) = Len(enq)
    /\ \E i, j \in 1..Len(sent) : sent[i].value /\ ~sent[j].value

\* C5: the worker takes the requests, and sends their notifications, in the
\* order they were put on the queue; each caller's requests are put, and so
\* processed, in the order the caller supplied them.
Ids(q) == [i \in 1..Len(q) |-> <<q[i].client, q[i].seq>>]
IsPrefix(a, b) == Len(a) <= Len(b) /\ \A i \in 1..Len(a) : a[i] = b[i]
Processed ==
    IF wpc \in {"dispatch", "wait"}
    THEN Append(Ids(sent), <<cur.client, cur.seq>>)
    ELSE Ids(sent)
InCallerOrder(q) ==
    \A i, j \in 1..Len(q) :
        (i < j /\ q[i].client = q[j].client) => q[i].seq < q[j].seq

C5_ProcessedInEnqueueOrder ==
    /\ IsPrefix(Processed, Ids(enq))
    /\ InCallerOrder(enq)
    /\ InCallerOrder(sent)

C5_Witness ==
    /\ Len(sent) = 4
    /\ enq[1].client = 1 /\ enq[2].client = 2 /\ enq[3].client = 2 /\ enq[4].client = 1
    /\ sent[4].client = 1 /\ sent[4].seq = 2

\* C6: threads that each write_page(i, data_i) and then read_page(i, buf), with
\* distinct page ids, see every call return Ok, every read return the bytes
\* the thread wrote, and no call left waiting for a lock that is never
\* released, in every interleaving.
C6_ReturnedOk ==
    \A t \in Threads :
        pc[t] = "ret" =>
            /\ loc[t].ok
            /\ loc[t].op = "read" => loc[t].data = expect[t]

\* Thread t holds db_io and waits for metadata (write_page line 100) while
\* thread u holds metadata and waits for db_io (allocate_page line 219).
WaitCycle ==
    \E t, u \in AllThreads :
        /\ pc[t] = "wp_meta_lock" /\ db_io_lock = t
        /\ pc[u] = "alloc_db_lock" /\ metadata_lock = u

C6_AllCallsSucceed == C6_ReturnedOk /\ ~WaitCycle

\* C7: a write_page of an unmapped page id that fails in its file I/O (seek,
\* write or flush) pushes the offset it allocated on free_slots when it
\* returns, without touching pages or num_writes; a write_page that succeeds
\* pushes nothing; num_writes moves only when a write_page commits. With a
\* single caller the returned failure leaves the offset in free_slots and the
\* page id unmapped.
C7_RollbackStep ==
    \A t \in AllThreads :
        /\ (pc[t] = "guard_drop" /\ pc'[t] = "ret") =>
              /\ loc[t].is_new /\ loc[t].fault \in FileFaults /\ ~loc'[t].ok
              /\ free_slots' = Append(free_slots, loc[t].offset)
              /\ pages' = pages /\ num_writes' = num_writes
        /\ (pc[t] = "wp_db_lock" /\ pc'[t] = "ret") => ~loc[t].is_new
        /\ (pc[t] = "wp_meta_lock" /\ pc'[t] = "ret") =>
              /\ loc'[t].ok /\ free_slots' = free_slots
        /\ (pc[t] \notin {"wp_meta_lock", "ret"} /\ pc'[t] = "ret") =>
              (loc'[t].op = "write" => ~loc'[t].ok)

C7_NumWritesOnlyOnCommit ==
    num_writes' # num_writes =>
        \E t \in AllThreads : pc[t] = "wp_meta_lock" /\ pc'[t] = "ret"

C7_FailedNewWrite(t) ==
    /\ pc[t] = "ret" /\ loc[t].op = "write" /\ ~loc[t].ok
    /\ loc[t].is_new /\ loc[t].fault \in FileFaults

C7_AfterReturn ==
    nthr = 1 =>
        \A t \in Threads :
            C7_FailedNewWrite(t) =>
                /\ loc[t].offset \in Range(free_slots)
                /\ pages[loc[t].page_id] = None

C7_Rollback ==
    /\ []C7_AfterReturn
    /\ [][C7_RollbackStep /\ C7_NumWritesOnlyOnCommit]_vars

C7_Witness ==
    /\ nthr = 1 /\ C7_FailedNewWrite(1)
    /\ loc[1].offset = DOCKBASE_PAGE_SIZE /\ free_slots = <<DOCKBASE_PAGE_SIZE>>
    /\ num_writes = 1

\* C8: with a single caller, a read_page(p) that follows a successful
\* write_page(p, d) with no write_page or delete_page of p in between returns
\* Ok and exactly d (unless the read's own file I/O fails), whatever calls on
\* other pages and earlier overwrites of p happened; and every write_page that
\* succeeds increments num_writes by exactly one.
C8_ReadAfterWrite ==
    nthr = 1 =>
        \A t \in Threads :
            (pc[t] = "ret" /\ loc[t].op = "read" /\ expect[loc[t].page_id] # None) =>
                \/ loc[t].ok /\ loc[t].data = expect[loc[t].page_id]
                \/ ~loc[t].ok /\ loc[t].fault = "read"

C8_WriteCounted ==
    \A t \in AllThreads :
        (pc[t] # "ret" /\ pc'[t] = "ret" /\ loc'[t].op = "write" /\ loc'[t].ok) =>
            num_writes' = num_writes + 1

C8_RoundTrip ==
    /\ []C8_ReadAfterWrite
    /\ [][C8_WriteCounted]_vars

C8_Witness ==
    /\ nthr = 1 /\ pc[1] = "ret" /\ loc[1].op = "read" /\ loc[1].ok
    /\ loc[1].data = expect[loc[1].page_id] /\ loc[1].data = 2
    /\ loc[1].offset = DOCKBASE_PAGE_SIZE
    /\ num_writes = 3

\* C9: free-slot reuse is LIFO: a write_page of an unmapped page id made while
\* free_slots is non-empty takes the offset pushed last, removes it from
\* free_slots and leaves page_count alone; when delete_page freed offsets
\* since the last allocation it takes the one freed most recently; and the
\* commit maps the page id to that offset.
C9_AllocStep ==
    \A t \in AllThreads :
        /\ (pc[t] = "idle" /\ pc'[t] # "idle" /\ loc'[t].op = "write" /\ loc'[t].is_new) =>
              /\ free_slots # <<>> =>
                    /\ loc'[t].offset = Last(free_slots)
                    /\ free_slots' = Front(free_slots)
                    /\ page_count' = page_count
                    /\ pc'[t] = "wp_db_lock"
              /\ freed # <<>> => loc'[t].offset = Last(freed)
        /\ (pc[t] = "wp_meta_lock" /\ pc'[t] = "ret") =>
              pages'[loc[t].page_id] = loc[t].offset

C9_LifoReuse == [][C9_AllocStep]_vars

C9_Witness ==
    /\ nthr = 1 /\ pc[1] = "ret" /\ loc[1].op = "write" /\ loc[1].ok /\ loc[1].is_new
    /\ num_deletes = 2 /\ page_count = 2
    /\ loc[1].offset = DOCKBASE_PAGE_SIZE /\ free_slots = <<0>>
    /\ pages[loc[1].page_id] = DOCKBASE_PAGE_SIZE

\* C10: delete_page of a page id with no mapping changes no Metadata field;
\* delete_page of a mapped page id unmaps it, pushes its offset on free_slots
\* once and increments num_deletes by one, so a second delete_page of the
\* same id changes nothing; num_deletes moves in no other step.
C10_DeleteStep ==
    /\ \A t \in AllThreads :
          (pc[t] = "idle" /\ pc'[t] = "ret" /\ loc'[t].op = "delete") =>
              LET p == loc'[t].page_id
              IN IF pages[p] = None
                 THEN UNCHANGED metaVars
                 ELSE /\ pages' = [pages EXCEPT ![p] = None]
                      /\ free_slots' = Append(free_slots, pages[p])
                      /\ num_deletes' = num_deletes + 1
                      /\ UNCHANGED <<num_flushes, num_writes, page_count,
                                     page_capacity, flush_log>>
    /\ num_deletes' # num_deletes =>
          \E t \in AllThreads : pc[t] = "idle" /\ pc'[t] = "ret" /\ loc'[t].op = "delete"

C10_DeleteIdempotent == [][C10_DeleteStep]_vars

C10_Witness ==
    /\ nthr = 1 /\ pc[1] = "ret" /\ loc[1].op = "delete" /\ loc[1].offset = None
    /\ num_writes = 1 /\ num_deletes = 1 /\ free_slots = <<0>>
    /\ Mapped = {}

\* C11: the boolean the worker sends for a request is the success of the
\* DiskManager call it dispatched for it (read_page for Read, write_page for
\* Write, on the request's page id), true for Ok and false for every error;
\* whether or not the send finds a receiver the worker goes on to the next
\* get, and it exits only on the sentinel, with every request sent.
C11_Dispatched ==
    wpc = "wait" =>
        /\ loc[WorkerId].op = (IF cur.request_type = "Read" THEN "read" ELSE "write")
        /\ loc[WorkerId].page_id = cur.page_id

C11_ExitOnlyOnSentinel ==
    wpc = "exited" => (sched # "live" /\ Len(sent) = Len(enq))

C11_SendStep ==
    (wpc = "wait" /\ wpc' # "wait") =>
        /\ pc[WorkerId] = "ret"
        /\ sent' = Append(sent, [client |-> cur.client, seq |-> cur.seq,
                                  value |-> loc[WorkerId].ok])
        /\ loc[WorkerId].ok = (loc[WorkerId].err = "")
        /\ wpc' = "get"

C11_BooleanIsSuccess ==
    /\ [](C11_Dispatched /\ C11_ExitOnlyOnSentinel)
    /\ [][C11_SendStep]_vars

C11_Witness ==
    /\ send_failed /\ Len(sent) = 1 /\ sent[1].value
    /\ wpc = "wait" /\ pc[WorkerId] = "ret"
    /\ ~loc[WorkerId].ok /\ loc[WorkerId].err = "Invalid"

\* C12: dropping the DiskScheduler puts the sentinel behind every request
\* already scheduled; the worker exits only on the sentinel, after it has
\* processed and notified every request enqueued before it; the drop returns
\* only after the worker has exited, leaving no request unprocessed; and a
\* drop that has started eventually completes.
C12_SentinelLast ==
    /\ sched = "live" => \A i \in 1..Len(request_queue) : request_queue[i] # NoneReq
    /\ (sched = "joining" /\ wpc # "exited") =>
          /\ request_queue # <<>>
          /\ Last(request_queue) = NoneReq
          /\ \A i \in 1..(Len(request_queue) - 1) : request_queue[i] # NoneReq

C12_ExitAfterAll ==
    wpc = "exited" =>
        /\ sched # "live"
        /\ request_queue = <<>>
        /\ \A i \in 1..Len(enq) : SentCount(enq[i].client, enq[i].seq) = 1

C12_DropAfterExit == sched = "dropped" => wpc = "exited"

C12_DropCompletes ==
    /\ [](C12_SentinelLast /\ C12_ExitAfterAll /\ C12_DropAfterExit)
    /\ (sched = "joining") ~> (sched = "dropped")

C12_Witness ==
    /\ sched = "joining" /\ wpc = "wait"
    /\ Len(request_queue) = 3 /\ Last(request_queue) = NoneReq
    /\ Len(sent) = 1

\* C13: the worker has a DiskManager call in flight, the only code that
\* touches a request's buffer, only for the one request it dequeued last and
\* has not yet notified: the call works on that request's page id and bytes,
\* no boolean has been sent for the request, and between a send and the next
\* dequeue no call is in flight.
C13_BufferAccess ==
    /\ pc[WorkerId] # "idle" =>
          /\ wpc = "wait"
          /\ cur # NoneReq
          /\ Enqueued(cur.client, cur.seq)
          /\ SentCount(cur.client, cur.seq) = 0
          /\ loc[WorkerId].page_id = cur.page_id
          /\ loc[WorkerId].op = "write" => loc[WorkerId].data = cur.data
    /\ wpc \in {"get", "exited"} => (cur = NoneReq /\ pc[WorkerId] = "idle")

C13_Witness ==
    /\ pc[WorkerId] = "rp_db_lock" /\ wpc = "wait"
    /\ cur.seq = 2 /\ SentCount(cur.client, 1) = 1
    /\ Len(request_queue) = 2

\* C14: a put is always possible and appends at the tail; a get parks while
\* the queue is empty and otherwise removes and returns the head; with
\* several producers and one consumer the elements returned, the one being
\* returned and the queue make up the elements put, each exactly once and in
\* push order, so each producer's elements come out in its put order; and a
\* get that waits while the queue holds an element eventually returns.
C14_ExactlyOnceInOrder ==
    /\ got \o (IF gpc = "ret" THEN <<gel>> ELSE <<>>) \o ch_queue = put_log
    /\ InCallerOrder(put_log)
    /\ \A c \in Clients : nput[c] < MaxPuts => ENABLED put(c)
    /\ gpc = "parked" => ch_queue = <<>>

C14_Step ==
    /\ (put_log' # put_log) =>
          /\ ch_queue' = Append(ch_queue, Last(put_log'))
          /\ Len(put_log') = Len(put_log) + 1
    /\ (gpc \in {"idle", "woken"} /\ gpc' # gpc) =>
          IF ch_queue = <<>>
          THEN gpc' = "parked" /\ ch_queue' = ch_queue
          ELSE gpc' = "ret" /\ gel' = Head(ch_queue) /\ ch_queue' = Tail(ch_queue)

C14_Channel ==
    /\ []C14_ExactlyOnceInOrder
    /\ [][C14_Step]_vars
    /\ (gpc \in {"parked", "woken"} /\ ch_queue # <<>>) ~> (gpc = "ret")

C14_Witness ==
    /\ gpc = "woken" /\ Len(ch_queue) = 3 /\ Len(got) = 1
    /\ got[1].client = 2
    /\ ch_queue[1].client = 1 /\ ch_queue[2].client = 2 /\ ch_queue[3].client = 1

\* C15: flush_log is true exactly while some write_log call has set the flag
\* and not yet returned: true while such a call is between setting the flag
\* and its return, false whenever no write_log call is in progress.
WriteLogInProgress(t) == pc[t] \in {"wl_log_lock", "wl_meta_lock"}

C15_FlushLogInProgress ==
    flush_log = (\E t \in AllThreads : WriteLogInProgress(t))

\* C16: the log only grows at its end; the payload of every write_log call
\* that returned Ok lies in the log as one contiguous span at the position it
\* was appended, in the order of the returns; when the log holds nothing but
\* the payloads b1..bn of successful calls it is their concatenation, bi
\* starting at |b1|+...+|b(i-1)|; and a read_log with a buffer of |bi| bytes
\* at the offset of bi returns true and exactly bi.
RECURSIVE SumLen(_)
SumLen(i) == IF i = 0 THEN 0 ELSE SumLen(i - 1) + Len(logged[i].data)

C16_Spans ==
    /\ \A i \in 1..Len(logged) :
          /\ logged[i].at + Len(logged[i].data) <= Len(log_io)
          /\ SubSeq(log_io, logged[i].at + 1, logged[i].at + Len(logged[i].data))
                = logged[i].data
          /\ i > 1 => logged[i].at >= logged[i - 1].at + Len(logged[i - 1].data)
    /\ ((\A t \in AllThreads : pc[t] # "wl_meta_lock")
            /\ Len(log_io) = SumLen(Len(logged))) =>
          \A i \in 1..Len(logged) : logged[i].at = SumLen(i - 1)

C16_Step ==
    /\ IsPrefix(log_io, log_io')
    /\ \A t \in AllThreads :
          (pc[t] = "idle" /\ pc'[t] = "ret" /\ loc'[t].op = "read_log" /\ loc'[t].ok) =>
              /\ log_io' = log_io
              /\ loc'[t].found = (loc'[t].offset < Len(log_io))
              /\ \A i \in 1..Len(logged) :
                    (loc'[t].offset = logged[i].at
                        /\ Len(loc'[t].bytes) = Len(logged[i].data)) =>
                       (loc'[t].found /\ loc'[t].bytes = logged[i].data)

C16_AppendOnly ==
    /\ []C16_Spans
    /\ [][C16_Step]_vars

C16_Witness ==
    /\ nthr = 1 /\ pc[1] = "ret" /\ loc[1].op = "read_log" /\ loc[1].found
    /\ Len(logged) = 2 /\ logged[1].data = <<1, 2>> /\ logged[2].data = <<2, 1>>
    /\ loc[1].offset = 2 /\ loc[1].bytes = <<2, 1>>
    /\ log_io = <<1, 2, 2, 1>>

\* C17: a write_log call with an empty payload returns Ok in one step that
\* changes no Metadata field and not the log; a write_log call with a
\* non-empty payload that returns Ok adds exactly one to num_flushes in the
\* step of its return; num_flushes changes in no other step, so it is the
\* number of non-empty write_log calls that returned Ok.
C17_Step ==
    /\ \A t \in AllThreads :
          /\ (pc[t] = "idle" /\ pc'[t] # "idle" /\ loc'[t].op = "write_log"
                 /\ loc'[t].bytes = <<>>) =>
                /\ pc'[t] = "ret" /\ loc'[t].ok
                /\ UNCHANGED <<metaVars, log_io, log_io_lock>>
          /\ (pc[t] # "ret" /\ pc'[t] = "ret" /\ loc'[t].op = "write_log"
                 /\ loc'[t].ok /\ loc'[t].bytes # <<>>) =>
                num_flushes' = num_flushes + 1
    /\ num_flushes' # num_flushes =>
          \E t \in AllThreads :
              /\ pc[t] = "wl_meta_lock" /\ pc'[t] = "ret"
              /\ loc'[t].ok /\ loc'[t].bytes # <<>>

C17_Counted ==
    /\ num_flushes = Len(logged)
    /\ \A i \in 1..Len(logged) : logged[i].data # <<>>

C17_NumFlushes ==
    /\ []C17_Counted
    /\ [][C17_Step]_vars

C17_Witness ==
    /\ nthr = 1 /\ pc[1] = "ret" /\ loc[1].op = "write_log" /\ loc[1].bytes = <<>>
    /\ loc[1].ok /\ num_flushes = 1 /\ ~flush_log
    /\ log_io = <<2, 1>> /\ calls[1] = 2

\* C18: a read_page call for a page id with no mapping returns Err(Invalid)
\* from its first step; and no step of a read_page call, successful or
\* failed, changes a Metadata field (pages, free_slots, page_count,
\* page_capacity, the counters, flush_log) or the data file.
C18_Step ==
    \A t \in AllThreads :
        /\ (pc[t] = "idle" /\ pc'[t] # "idle" /\ loc'[t].op = "read") =>
              /\ UNCHANGED <<metaVars, db_io>>
              /\ IF pages[loc'[t].page_id] = None
                 THEN pc'[t] = "ret" /\ ~loc'[t].ok /\ loc'[t].err = "Invalid"
                 ELSE pc'[t] = "rp_db_lock" /\ loc'[t].offset = pages[loc'[t].page_id]
        /\ (pc[t] = "rp_db_lock" /\ pc'[t] # "rp_db_lock") =>
              /\ UNCHANGED <<metaVars, db_io>>
              /\ pc'[t] = "ret"
              /\ loc'[t].err \in {"", "IO"}

C18_ReadPageInvalid == [][C18_Step]_vars

C18_Witness ==
    /\ nthr = 1 /\ pc[1] = "ret" /\ loc[1].op = "read"
    /\ ~loc[1].ok /\ loc[1].err = "Invalid"
    /\ num_writes = 1 /\ num_deletes = 1 /\ free_slots = <<0>>

\* C19: num_writes, num_deletes and num_flushes never decrease: no step of
\* any execution leaves one of them smaller than it was.
C19_Step ==
    /\ num_writes' >= num_writes
    /\ num_deletes' >= num_deletes
    /\ num_flushes' >= num_flushes

C19_CountersNeverDecrease == [][C19_Step]_vars

\* C20: lock discipline: no thread waits for the metadata lock while it holds
\* the data-file or the log-file lock, and no thread holds the metadata lock
\* when it goes on to a file operation (here set_len, behind the data-file
\* lock).
WantsMetadata(t) == pc[t] \in {"wp_meta_lock", "wl_meta_lock", "guard_drop"}
HoldsFileLock(t) == db_io_lock = t \/ log_io_lock = t
FileOpNext(t) == pc[t] \in {"alloc_db_lock", "wp_db_lock", "rp_db_lock", "wl_log_lock"}

C20_LockDiscipline ==
    \A t \in AllThreads :
        /\ ~(WantsMetadata(t) /\ HoldsFileLock(t))
        /\ ~(FileOpNext(t) /\ metadata_lock = t)

\* C21: no DiskManager call blocks for ever: in no reachable state do threads
\* wait for each other's locks in a cycle, each waiting at a lock() for a
\* mutex that the next one holds.
Wanted(t) ==
    CASE pc[t] \in {"wp_meta_lock", "wl_meta_lock", "guard_drop"} -> metadata_lock
      [] pc[t] \in {"alloc_db_lock", "wp_db_lock", "rp_db_lock"} -> db_io_lock
      [] pc[t] \in {"wl_log_lock", "sd_log_lock"} -> log_io_lock
      [] OTHER -> None

BlockedBy(t, u) == t # u /\ Wanted(t) = u

C21_NoCallBlocksForever ==
    /\ \A t, u \in AllThreads : ~(BlockedBy(t, u) /\ BlockedBy(u, t))
    /\ \A t, u, v \in AllThreads :
          ~(BlockedBy(t, u) /\ BlockedBy(u, v) /\ BlockedBy(v, t))

\* C22: an allocation made with free_slots empty returns the old
\* page_count * PAGE_SIZE and adds one to page_count; made with page_count =
\* page_capacity it doubles page_capacity, returns an offset at or beyond the
\* old capacity and sets the file length to the new page_capacity * PAGE_SIZE;
\* and whenever the metadata lock is free the file is at least
\* page_count * PAGE_SIZE and at least page_capacity * PAGE_SIZE long.
C22_AllocStep ==
    \A t \in AllThreads :
        /\ (pc[t] = "idle" /\ pc'[t] # "idle" /\ loc'[t].op = "write"
               /\ loc'[t].is_new /\ free_slots = <<>>) =>
              /\ loc'[t].offset = page_count * DOCKBASE_PAGE_SIZE
              /\ page_count' = page_count + 1
              /\ IF page_count = page_capacity
                 THEN /\ page_capacity' = 2 * page_capacity
                      /\ loc'[t].offset >= page_capacity * DOCKBASE_PAGE_SIZE
                      /\ pc'[t] = "alloc_db_lock"
                 ELSE page_capacity' = page_capacity
        /\ (pc[t] = "alloc_db_lock" /\ pc'[t] = "wp_db_lock") =>
              Len(db_io') = page_capacity

C22_FileCovers ==
    metadata_lock = None =>
        /\ page_count <= Len(db_io)
        /\ page_capacity <= Len(db_io)

C22_CapacityGrowth ==
    /\ []C22_FileCovers
    /\ [][C22_AllocStep]_vars

\* C23: a write_page call that fails because set_len fails inside
\* allocate_page leaves the metadata as it was before the call. The call holds
\* the metadata lock from its start to the failure, and its start took the
\* next offset, added one to page_count and doubled page_capacity; so the
\* failing step has to take page_count back by one and page_capacity back to
\* its half, with pages and free_slots as they are, and with a single caller
\* the offset of the returned call is not below page_count * PAGE_SIZE
\* (not consumed) and the file covers page_capacity * PAGE_SIZE.
C23_Step ==
    \A t \in AllThreads :
        (pc[t] = "alloc_db_lock" /\ pc'[t] = "ret") =>
            /\ ~loc'[t].ok /\ loc'[t].fault = "set_len"
            /\ page_count' = page_count - 1
            /\ page_capacity' * 2 = page_capacity
            /\ pages' = pages
            /\ free_slots' = free_slots

C23_AfterReturn ==
    nthr = 1 =>
        \A t \in Threads :
            (pc[t] = "ret" /\ loc[t].op = "write" /\ loc[t].fault = "set_len") =>
                /\ loc[t].offset >= page_count * DOCKBASE_PAGE_SIZE
                /\ page_capacity <= Len(db_io)

C23_GrowthFailureRollsBack ==
    /\ []C23_AfterReturn
    /\ [][C23_Step]_vars

\* C24: page isolation: a read_page(p, buf) that returns Ok returns bytes
\* written by a write_page(p, _), never bytes written for another page id;
\* with every write_page(p, _) writing the bytes p, a successful read of p
\* returns p.
C24_PageIsolation ==
    \A t \in AllThreads :
        (pc[t] = "ret" /\ loc[t].op = "read" /\ loc[t].ok) =>
            loc[t].data = loc[t].page_id

====
